---- MODULE Spec2Model ----
(***************************************************************************)
(* Model of smatch_ilp.py: the SmatchILP class (build_model, normalize,    *)
(* solve) and the batch driver under __main__.                             *)
(*                                                                         *)
(* Strings are sequences of one-character strings, so that normalize and   *)
(* the "%s:%s:%s" triple identifiers are computed character by character.  *)
(* A triple is a 3-tuple <<name, var1, var2>> of such strings.  A graph is *)
(* a record [insts, rels] holding the two lists AMR.get_triples2 returns.  *)
(* Scores are exact rationals <<numerator, denominator>> in lowest terms.  *)
(***************************************************************************)
EXTENDS Integers, Sequences, FiniteSets, TLC

VARIABLES
    pc,               \* position of the program
    arg1, arg2,       \* self.arg1, self.arg2: the two graphs
    arg1vars, arg2vars, \* self.arg1vars, self.arg2vars: node -> concept
    rels1, rels2,     \* build_model's lists after normalisation and extend
    var_choices,      \* build_model's set of node pairings
    trpl_choices,     \* build_model's set of triple-id pairings
    trpl_var_consts,  \* build_model's dict: triple-id pairing -> node pairings
    arg1size, arg2size, \* self.arg1size, self.arg2size
    status,           \* self.model.status after optimize()
    objVal,           \* self.model.objVal
    score,            \* the value solve() returns
    error,            \* the exception that ended the program, or "none"
    total, count,     \* the driver's accumulators
    nread,            \* number of pairs AMR.read_amrs has yielded
    out,              \* what the driver printed at the end
    item, prev, ncalls \* normalize: current value, its argument, calls made

vars == <<pc, arg1, arg2, arg1vars, arg2vars, rels1, rels2, var_choices,
          trpl_choices, trpl_var_consts, arg1size, arg2size, status, objVal,
          score, error, total, count, nread, out, item, prev, ncalls>>

smatchVars == <<arg1, arg2, arg1vars, arg2vars, rels1, rels2, var_choices,
                trpl_choices, trpl_var_consts, arg1size, arg2size, status,
                objVal, score>>

driverVars == <<total, count, nread, out>>

normVars == <<item, prev, ncalls>>

----------------------------------------------------------------------------
(* Bounds of the model *)

MaxLen == 3        \* longest label string given to normalize on its own
MaxCalls == 2      \* normalize is applied at most this often in a row
MaxRels == 2       \* longest relation list of a graph
MaxSize == 3       \* most triples (instances + relations) of a graph
MaxPairs == 2      \* most pairs the batch driver reads

----------------------------------------------------------------------------
(* Strings *)

Range(s) == {s[i] : i \in 1..Len(s)}

Min(a, b) == IF a <= b THEN a ELSE b

Max(a, b) == IF a >= b THEN a ELSE b

\* str.lower() on one character
LowerChar(c) ==
    CASE c = "A" -> "a"
      [] c = "B" -> "b"
      [] c = "D" -> "d"
      [] c = "K" -> "k"
      [] c = "R" -> "r"
      [] OTHER -> c

Lower(s) == [i \in 1..Len(s) |-> LowerChar(s[i])]

\* the characters str.strip() removes
IsSpace(c) == c = " "

RECURSIVE LStrip(_)
LStrip(s) ==
    IF s # <<>> /\ IsSpace(Head(s)) THEN LStrip(Tail(s)) ELSE s

RECURSIVE RStripSpace(_)
RStripSpace(s) ==
    IF s # <<>> /\ IsSpace(s[Len(s)])
    THEN RStripSpace(SubSeq(s, 1, Len(s) - 1))
    ELSE s

\* str.strip()
Strip(s) == RStripSpace(LStrip(s))

\* str.rstrip('_')
RECURSIVE RStripUnderscore(_)
RStripUnderscore(s) ==
    IF s # <<>> /\ s[Len(s)] = "_"
    THEN RStripUnderscore(SubSeq(s, 1, Len(s) - 1))
    ELSE s

\* SmatchILP.normalize: item.lower().strip().rstrip('_')
normalize(s) == RStripUnderscore(Strip(Lower(s)))

----------------------------------------------------------------------------
(* Exact rationals <<n, d>>, d > 0, in lowest terms: the values of the     *)
(* float arithmetic of solve() without its rounding.                       *)

RECURSIVE GCD(_, _)
GCD(a, b) == IF b = 0 THEN a ELSE GCD(b, a % b)

Frac(n, d) == LET g == GCD(n, d) IN <<n \div g, d \div g>>

FracAdd(p, q) == Frac(p[1] * q[2] + q[1] * p[2], p[2] * q[2])

FracMul(p, q) == Frac(p[1] * q[1], p[2] * q[2])

\* p / q for q > 0
FracDiv(p, q) == Frac(p[1] * q[2], p[2] * q[1])

\* p < q
FracLess(p, q) == p[1] * q[2] < q[1] * p[2]

Zero == <<0, 1>>

One == <<1, 1>>

\* the 1e-6 of solve(): 1 / EpsDen
EpsDen == 1000000

----------------------------------------------------------------------------
(* The graphs the model is run on.  AMR.get_triples2 gives one instance    *)
(* triple per node and relation triples whose source is a node of the      *)
(* graph.  build_model reads the lists only through sets and dicts, so one *)
(* order per list is enumerated.                                           *)

InstanceLabel == <<"i", "n", "s", "t", "a", "n", "c", "e">>

NodeOrder == << <<"a">>, <<"B">> >>

NodeIds == Range(NodeOrder)

Concepts == { <<"d">>, <<"a">> }

RelLabels == { <<"r">>, <<"R">> }

\* the targets of relation triples: a target that names no node of its graph
\* after normalisation is a literal
Targets == NodeIds

RECURSIVE SetToSeq(_)
SetToSeq(S) ==
    IF S = {} THEN <<>>
    ELSE LET x == CHOOSE y \in S : TRUE IN <<x>> \o SetToSeq(S \ {x})

\* the instance list of the nodes S with concepts c
InstList(S, c) ==
    LET ordered == SelectSeq(NodeOrder, LAMBDA n : n \in S)
    IN [i \in 1..Len(ordered) |-> <<InstanceLabel, ordered[i], c[ordered[i]]>>]

\* the relation lists of at most n triples over the nodes S
RelLists(S, n) ==
    LET all == SetToSeq(RelLabels \X S \X Targets)
    IN UNION {{[i \in 1..k |-> all[f[i]]] :
                  f \in {g \in [1..k -> 1..Len(all)] :
                            \A i \in 1..k, j \in 1..k : i < j => g[i] <= g[j]}} :
              k \in 0..n}

UniqueGraphs ==
    UNION {UNION {{[insts |-> InstList(S, c), rels |-> r] :
                      r \in RelLists(S, Min(MaxRels, MaxSize - Cardinality(S)))} :
                  c \in [S -> Concepts]} :
           S \in SUBSET NodeIds}

\* one graph that names a node twice, which build_model's assert refuses
DupGraphs ==
    {[insts |-> << <<InstanceLabel, <<"a">>, <<"d">> >>,
                   <<InstanceLabel, <<"a">>, <<"d">> >> >>,
      rels |-> <<>>]}

Graphs == UniqueGraphs \cup DupGraphs

----------------------------------------------------------------------------
(* build_model *)

\* lines 49-51: the third field of every triple is normalised
NormItems(items) ==
    [i \in 1..Len(items) |-> <<items[i][1], items[i][2], normalize(items[i][3])>>]

\* lines 55-56: the two asserts, over a whole instance list
AssertsHold(insts) ==
    /\ \A i \in 1..Len(insts) : insts[i][1] = InstanceLabel
    /\ \A i \in 1..Len(insts), j \in 1..Len(insts) : i < j => insts[i][2] # insts[j][2]

\* lines 53-57: index[var] = concept
VarIndex(insts) ==
    [v \in {insts[i][2] : i \in 1..Len(insts)} |->
        insts[CHOOSE i \in 1..Len(insts) :
                 /\ insts[i][2] = v
                 /\ \A j \in 1..Len(insts) : insts[j][2] = v => j <= i][3]]

\* lines 59-62
VarChoices(v1, v2) == (DOMAIN v1) \X (DOMAIN v2)

\* lines 74, 76: "%s:%s:%s" % (name, var1, var2)
TripleId(t) == t[1] \o <<":">> \o t[2] \o <<":">> \o t[3]

\* TargetOk without the test that the second graph's target is no node
TargetOkOneSided(t1, t2, v1, v2) ==
    \/ <<t1[3], t2[3]>> \in VarChoices(v1, v2)
    \/ /\ t1[3] \notin DOMAIN v1
       /\ t1[3] = t2[3]

\* lines 81-85: the second arguments can be matched, or are the same concept
TargetOk(t1, t2, v1, v2) ==
    \/ <<t1[3], t2[3]>> \in VarChoices(v1, v2)
    \/ /\ t1[3] \notin DOMAIN v1
       /\ t2[3] \notin DOMAIN v2
       /\ t1[3] = t2[3]

\* line 79: the names match and the first arguments can be matched
NameAndSourceOk(t1, t2, v1, v2) ==
    /\ t1[1] = t2[1]
    /\ <<t1[2], t2[2]>> \in VarChoices(v1, v2)

\* lines 79-85
Admissible(t1, t2, v1, v2) ==
    NameAndSourceOk(t1, t2, v1, v2) /\ TargetOk(t1, t2, v1, v2)

\* Coupling without the append of the target pairing
CouplingSourceOnly(t1, t2, v1, v2) == << <<t1[2], t2[2]>> >>

\* lines 88-91: the node pairings a triple pairing depends on
Coupling(t1, t2, v1, v2) ==
    IF <<t1[3], t2[3]>> \in VarChoices(v1, v2)
    THEN << <<t1[2], t2[2]>>, <<t1[3], t2[3]>> >>
    ELSE << <<t1[2], t2[2]>> >>

\* lines 71-86
TrplChoices(r1, r2, v1, v2) ==
    {<<TripleId(r1[i]), TripleId(r2[j])>> :
        <<i, j>> \in {p \in (1..Len(r1)) \X (1..Len(r2)) :
                         Admissible(r1[p[1]], r2[p[2]], v1, v2)}}

\* lines 72-91: the dict keeps the entry of the last pair written under a key
TrplVarConsts(r1, r2, v1, v2) ==
    [k \in TrplChoices(r1, r2, v1, v2) |->
        LET hits == {p \in (1..Len(r1)) \X (1..Len(r2)) :
                        /\ Admissible(r1[p[1]], r2[p[2]], v1, v2)
                        /\ <<TripleId(r1[p[1]]), TripleId(r2[p[2]])>> = k}
            last == CHOOSE p \in hits :
                        \A q \in hits : q[1] < p[1] \/ (q[1] = p[1] /\ q[2] <= p[2])
        IN Coupling(r1[last[1]], r2[last[2]], v1, v2)]

\* build_model up to line 91, as a function of the two graphs
BuildModel(g1, g2) ==
    LET insts1 == NormItems(g1.insts)
        insts2 == NormItems(g2.insts)
        v1 == VarIndex(insts1)
        v2 == VarIndex(insts2)
        r1 == NormItems(g1.rels) \o insts1
        r2 == NormItems(g2.rels) \o insts2
    IN [arg1vars |-> v1, arg2vars |-> v2,
        rels1 |-> r1, rels2 |-> r2,
        var_choices |-> VarChoices(v1, v2),
        trpl_choices |-> TrplChoices(r1, r2, v1, v2),
        trpl_var_consts |-> TrplVarConsts(r1, r2, v1, v2),
        arg1size |-> Len(r1), arg2size |-> Len(r2)]

----------------------------------------------------------------------------
(* The ILP model of lines 100-114.  An assignment x gives the set x.v of   *)
(* node-pairing variables set to 1 and the set x.t of triple-pairing       *)
(* variables set to 1.                                                     *)

\* line 105: vars.sum(v1, '*') <= 1
ToMax1Var(V, v1) == Cardinality({p \in V : p[1] = v1}) <= 1

\* FromMax1Var with the constraint left out
FromMax1VarOff(V, v2) == TRUE

\* line 107: vars.sum('*', v2) <= 1
FromMax1Var(V, v2) == Cardinality({p \in V : p[2] = v2}) <= 1

\* lines 104-107 over all nodes
NodeConstrs(V, m) ==
    /\ \A v1 \in DOMAIN m.arg1vars : ToMax1Var(V, v1)
    /\ \A v2 \in DOMAIN m.arg2vars : FromMax1Var(V, v2)

\* TrplConstrs with a constraint for the first entry of a key only
TrplConstrsFirstOnly(V, on, k, m) == on => m.trpl_var_consts[k][1] \in V

\* lines 109-111: trpls[trpl_idx] <= vars[var_idx] for the entries of one key
TrplConstrs(V, on, k, m) ==
    \A i \in 1..Len(m.trpl_var_consts[k]) : on => m.trpl_var_consts[k][i] \in V

\* the assignments that satisfy every constraint of the model
Feasible(m) ==
    UNION {{[v |-> V, t |-> T] :
               T \in SUBSET {k \in m.trpl_choices : TrplConstrs(V, TRUE, k, m)}} :
           V \in {W \in SUBSET m.var_choices : NodeConstrs(W, m)}}

\* line 114 and optimize(): the largest trpls.sum() over the feasible assignments
Optimum(m) ==
    LET sums == {Cardinality(x.t) : x \in Feasible(m)}
    IN CHOOSE n \in sums : \A k \in sums : k <= n

----------------------------------------------------------------------------
(* solve, lines 140-147, for sizes whose minimum is not 0 *)

Precision(m, s1, s2) == Frac(m, Min(s1, s2))

Recall(m, s1, s2) == Frac(m, Max(s1, s2))

SmatchScore(m, s1, s2) ==
    LET precision == Precision(m, s1, s2)
        recall == Recall(m, s1, s2)
        denominator == FracAdd(precision, recall)
    IN IF FracLess(denominator, <<1, EpsDen>>)
       THEN Zero
       ELSE FracDiv(FracMul(FracMul(<<2, 1>>, precision), recall), denominator)

\* line 141 divides by min(arg1size, arg2size)
DivisionFails(s1, s2) == Min(s1, s2) = 0

----------------------------------------------------------------------------
(* The SmatchILP object: __init__ (which calls build_model) and solve *)

None == <<>>

NoIndex == [v \in {} |-> None]

\* the model that the fields of self and the locals of build_model describe
Model ==
    [arg1vars |-> arg1vars, arg2vars |-> arg2vars,
     rels1 |-> rels1, rels2 |-> rels2,
     var_choices |-> var_choices,
     trpl_choices |-> trpl_choices,
     trpl_var_consts |-> trpl_var_consts,
     arg1size |-> arg1size, arg2size |-> arg2size]

\* lines 53-57: the entries the loop has indexed when it ends or an assert fails
RECURSIVE IndexedPrefix(_, _)
IndexedPrefix(insts, n) ==
    IF n < Len(insts) /\ AssertsHold(SubSeq(insts, 1, n + 1))
    THEN IndexedPrefix(insts, n + 1)
    ELSE SubSeq(insts, 1, n)

\* build_model, lines 40-122, called by __init__ at line 38
Build ==
    /\ pc = "new"
    /\ \E m \in {BuildModel(arg1, arg2)} :
       \E insts1 \in {NormItems(arg1.insts)}, insts2 \in {NormItems(arg2.insts)} :
          IF AssertsHold(insts1) /\ AssertsHold(insts2)
          THEN /\ arg1vars' = m.arg1vars
               /\ arg2vars' = m.arg2vars
               /\ rels1' = m.rels1
               /\ rels2' = m.rels2
               /\ var_choices' = m.var_choices
               /\ trpl_choices' = m.trpl_choices
               /\ trpl_var_consts' = m.trpl_var_consts
               /\ arg1size' = m.arg1size
               /\ arg2size' = m.arg2size
               /\ error' = "none"
               /\ pc' = "built"
          ELSE /\ arg1vars' = VarIndex(IndexedPrefix(insts1, 0))
               /\ arg2vars' = IF AssertsHold(insts1)
                              THEN VarIndex(IndexedPrefix(insts2, 0))
                              ELSE NoIndex
               /\ UNCHANGED <<rels1, rels2, var_choices, trpl_choices,
                              trpl_var_consts, arg1size, arg2size>>
               /\ error' = "AssertionError"
               /\ pc' = "failed"
    /\ UNCHANGED <<arg1, arg2, status, objVal, score>>
    /\ UNCHANGED driverVars
    /\ UNCHANGED normVars

\* the statuses optimize() can end with
Statuses == {"OPTIMAL", "TIME_LIMIT"}

\* lines 133-161: solve()
Solve ==
    /\ pc = "built"
    /\ \E st \in Statuses :
          /\ status' = st
          /\ IF st # "OPTIMAL"
             THEN /\ objVal' = objVal
                  /\ score' = score
                  /\ error' = "AssertionError"
                  /\ pc' = "failed"
             ELSE \E n \in {Optimum(Model)} :
                  /\ objVal' = n
                  /\ IF DivisionFails(arg1size, arg2size)
                     THEN /\ score' = score
                          /\ error' = "ZeroDivisionError"
                          /\ pc' = "failed"
                     ELSE /\ score' = SmatchScore(n, arg1size, arg2size)
                          /\ error' = error
                          /\ pc' = "solved"
    /\ UNCHANGED <<arg1, arg2, arg1vars, arg2vars, rels1, rels2, var_choices,
                   trpl_choices, trpl_var_consts, arg1size, arg2size>>
    /\ UNCHANGED driverVars
    /\ UNCHANGED normVars

\* lines 30-37: the fields before build_model
InitFields ==
    /\ arg1vars = NoIndex
    /\ arg2vars = NoIndex
    /\ rels1 = <<>>
    /\ rels2 = <<>>
    /\ var_choices = {}
    /\ trpl_choices = {}
    /\ trpl_var_consts = NoIndex
    /\ arg1size = -1
    /\ arg2size = -1
    /\ status = "none"
    /\ objVal = -1
    /\ score = None
    /\ error = "none"

InitDriver ==
    /\ total = Zero
    /\ count = 0
    /\ nread = 0
    /\ out = None

InitNorm ==
    /\ item = <<>>
    /\ prev = <<>>
    /\ ncalls = 0

\* __init__ has stored any two graphs and is about to call build_model
Init ==
    /\ pc = "new"
    /\ arg1 \in Graphs
    /\ arg2 \in Graphs
    /\ InitFields
    /\ InitDriver
    /\ InitNorm

Next == Build \/ Solve

Spec == Init /\ [][Next]_vars

----------------------------------------------------------------------------
(* The batch driver, lines 181-195 *)

\* the pairs AMR.read_amrs yields: graphs without relation triples
Corpus == {g \in Graphs : Len(g.rels) = 0}

\* lines 183-184 and 30-37: the loop takes the next pair and starts its SmatchILP
ReadAmrs ==
    /\ pc = "loop"
    /\ nread < MaxPairs
    /\ nread' = nread + 1
    /\ \E g1 \in Corpus, g2 \in Corpus :
          /\ arg1' = g1
          /\ arg2' = g2
    /\ arg1vars' = NoIndex
    /\ arg2vars' = NoIndex
    /\ rels1' = <<>>
    /\ rels2' = <<>>
    /\ var_choices' = {}
    /\ trpl_choices' = {}
    /\ trpl_var_consts' = NoIndex
    /\ arg1size' = -1
    /\ arg2size' = -1
    /\ status' = "none"
    /\ objVal' = -1
    /\ score' = None
    /\ pc' = "new"
    /\ UNCHANGED <<error, total, count, out>>
    /\ UNCHANGED normVars

\* lines 186-187: total += score; count += 1
Accumulate ==
    /\ pc = "solved"
    /\ total' = FracAdd(total, score)
    /\ count' = count + 1
    /\ pc' = "loop"
    /\ UNCHANGED smatchVars
    /\ UNCHANGED <<error, nread, out>>
    /\ UNCHANGED normVars

\* lines 191-195: the input has ended; out is the average before formatting
EndOfInput ==
    /\ pc = "loop"
    /\ out' = IF count > 0 THEN FracDiv(total, <<count, 1>>) ELSE <<"No AMRs are found">>
    /\ pc' = "done"
    /\ UNCHANGED smatchVars
    /\ UNCHANGED <<error, total, count, nread>>
    /\ UNCHANGED normVars

InitBatch ==
    /\ pc = "loop"
    /\ arg1 = None
    /\ arg2 = None
    /\ InitFields
    /\ InitDriver
    /\ InitNorm

NextBatch == ReadAmrs \/ Build \/ Solve \/ Accumulate \/ EndOfInput

SpecBatch == InitBatch /\ [][NextBatch]_vars

----------------------------------------------------------------------------
(* normalize on its own *)

NormAlphabet == {"a", "A", " ", "_"}

Strings == UNION {[1..n -> NormAlphabet] : n \in 0..MaxLen}

\* lines 125-131: one call of normalize on the value of the call before
NormalizeCall ==
    /\ pc = "norm"
    /\ ncalls < MaxCalls
    /\ prev' = item
    /\ item' = normalize(item)
    /\ ncalls' = ncalls + 1
    /\ UNCHANGED pc
    /\ UNCHANGED smatchVars
    /\ UNCHANGED <<error, total, count, nread, out>>

InitNormalize ==
    /\ pc = "norm"
    /\ arg1 = None
    /\ arg2 = None
    /\ InitFields
    /\ InitDriver
    /\ item \in Strings
    /\ prev = item
    /\ ncalls = 0

NextNorm == NormalizeCall

SpecNorm == InitNormalize /\ [][NextNorm]_vars

----------------------------------------------------------------------------
(* Claims *)

Nodes1 == DOMAIN arg1vars

Nodes2 == DOMAIN arg2vars

\* the pairs of positions of rels1 and rels2 whose triple ids are paired
PairedPositions ==
    {p \in (1..Len(rels1)) \X (1..Len(rels2)) :
        <<TripleId(rels1[p[1]]), TripleId(rels2[p[2]])>> \in trpl_choices}

\* C1: when at least one graph has no triple at all, solve ends normally and
\* returns the score 0.0; it never ends in a division failure.
C1_DegenerateSizesScoreZero ==
    (status = "OPTIMAL" /\ (arg1size = 0 \/ arg2size = 0))
        => (pc = "solved" /\ score = Zero /\ error # "ZeroDivisionError")

\* C2: a graph with unique node identifiers (relation triples may repeat, the
\* graph may be empty) solved against an identical copy of itself has an optimal
\* matched-edge count of arg1size and the score 1.0.
C2_IdentityScoreOne ==
    (status = "OPTIMAL" /\ arg1 = arg2 /\ AssertsHold(arg1.insts))
        => (pc = "solved" /\ objVal = arg1size /\ score = One)

\* C5: normalize(normalize(x)) = normalize(x) for every label string x: the
\* second of two calls in a row returns its argument unchanged.
C5_NormalizeIdempotent ==
    ncalls = 2 => item = prev

\* C8: in the batch driver a pair whose solve does not end with an optimal
\* status is skipped: the driver is back at the head of its loop with no
\* error, and the pair has changed neither the running total nor the count.
C8_FailedPairSkipped ==
    [][(pc = "built" /\ status' = "TIME_LIMIT")
          => (pc' = "loop" /\ error' = "none" /\ total' = total /\ count' = count)]_vars

\* C3: solving (A, B) gives the optimal matched-edge count and the score (or the
\* division failure) that solving (B, A) gives.
C3_Symmetry ==
    status = "OPTIMAL" =>
        \E m \in {BuildModel(arg2, arg1)} :
        \E n \in {Optimum(m)} :
            /\ objVal = n
            /\ (pc = "failed") = DivisionFails(m.arg1size, m.arg2size)
            /\ pc = "solved" => score = SmatchScore(n, m.arg1size, m.arg2size)

\* C3 witness: two different graphs of different sizes were solved with a
\* match count above 0 and below the smaller size.
C3_Witness ==
    /\ pc = "solved"
    /\ arg1 # arg2
    /\ arg1size < arg2size
    /\ 0 < objVal
    /\ objVal < arg1size

\* C4: every assignment that satisfies the model's constraints sets at most
\* min(arg1size, arg2size) triple-pairing variables, and pairs no triple of
\* either graph with two different triples of the other; the optimum obeys
\* the same bound, so precision and recall are at most 1.
C4_MatchBound ==
    /\ pc = "built" =>
          \A x \in Feasible(Model) :
              /\ Cardinality(x.t) <= Min(arg1size, arg2size)
              /\ \A p \in x.t, q \in x.t :
                    (p[1] = q[1] \/ p[2] = q[2]) => p = q
    /\ pc = "solved" =>
          /\ objVal <= Min(arg1size, arg2size)
          /\ ~FracLess(One, Precision(objVal, arg1size, arg2size))
          /\ ~FracLess(One, Recall(objVal, arg1size, arg2size))

\* C4 witness: the model has more triple-pairing variables than the smaller
\* graph has triples, and the optimum reaches the bound.
C4_Witness ==
    /\ pc = "solved"
    /\ Cardinality(trpl_choices) > Min(arg1size, arg2size)
    /\ objVal = Min(arg1size, arg2size)
    /\ arg1size # arg2size

\* the relation label, the concept and nothing else of a graph normalised
LabelsNormalised(g) ==
    [i \in 1..Len(g.rels) |-> <<normalize(g.rels[i][1]), g.rels[i][2], g.rels[i][3]>>]
        \o NormItems(g.insts)

\* C6: two triples whose labels are equal after normalisation, whose sources
\* can be paired and whose targets can be paired or are equal literals, form
\* a triple-pairing candidate; and the triples compared are the input triples
\* with the relation label and the concept normalised and nothing else.
C6_LabelsComparedNormalised ==
    pc = "built" =>
        /\ \A i \in 1..Len(rels1), j \in 1..Len(rels2) :
              ( /\ normalize(rels1[i][1]) = normalize(rels2[j][1])
                /\ <<rels1[i][2], rels2[j][2]>> \in var_choices
                /\ TargetOk(rels1[i], rels2[j], arg1vars, arg2vars) )
              => <<TripleId(rels1[i]), TripleId(rels2[j])>> \in trpl_choices
        /\ rels1 = LabelsNormalised(arg1)
        /\ rels2 = LabelsNormalised(arg2)

\* the node identifiers of a graph as given
RawNodes(g) == {g.insts[i][2] : i \in 1..Len(g.insts)}

\* h is g with its node identifiers renamed one-to-one
IsRenaming(g, h) ==
    /\ Len(h.insts) = Len(g.insts)
    /\ Len(h.rels) = Len(g.rels)
    /\ \E f \in [RawNodes(g) -> NodeIds] :
          /\ \A a \in RawNodes(g), b \in RawNodes(g) : f[a] = f[b] => a = b
          /\ Range(h.insts) = {<<t[1], f[t[2]], t[3]>> : t \in Range(g.insts)}
          /\ Range(h.rels) =
                {<<t[1], f[t[2]], IF t[3] \in RawNodes(g) THEN f[t[3]] ELSE t[3]>> :
                    t \in Range(g.rels)}

\* no triple of the graph is repeated
DistinctTriples(g) ==
    /\ AssertsHold(g.insts)
    /\ \A i \in 1..Len(g.rels), j \in 1..Len(g.rels) : i < j => g.rels[i] # g.rels[j]

\* C7: a graph with at least one node and pairwise distinct triples, solved
\* against a one-to-one renaming of its nodes, has an optimal matched-edge
\* count of arg1size = arg2size and the score 1.0.
C7_RenamingScoreOne ==
    ( /\ status = "OPTIMAL"
      /\ Len(arg1.insts) >= 1
      /\ DistinctTriples(arg1)
      /\ IsRenaming(arg1, arg2) )
    => (pc = "solved" /\ arg1size = arg2size /\ objVal = arg1size /\ score = One)

\* C9: for every pair of triples in the candidate set, either both targets
\* are nodes of their own graph and the coupling list is the source pairing
\* followed by the target pairing, or neither target is a node of its own
\* graph, the targets are equal and the coupling list is the source pairing.
C9_NoNodeLiteralPairing ==
    pc = "built" =>
        \A p \in PairedPositions :
            LET t1 == rels1[p[1]]
                t2 == rels2[p[2]]
                c == trpl_var_consts[<<TripleId(t1), TripleId(t2)>>]
            IN \/ /\ t1[3] \in Nodes1
                  /\ t2[3] \in Nodes2
                  /\ c = << <<t1[2], t2[2]>>, <<t1[3], t2[3]>> >>
               \/ /\ t1[3] \notin Nodes1
                  /\ t2[3] \notin Nodes2
                  /\ t1[3] = t2[3]
                  /\ c = << <<t1[2], t2[2]>> >>

\* C9 witness: the candidate set holds a pairing of relation triples with
\* literal targets, and a relation triple with a node target met one with the
\* same label, a source it can be paired with and the same text as a literal
\* target, and the two were not paired.
C9_Witness ==
    /\ pc = "built"
    /\ \E p \in PairedPositions :
          /\ rels1[p[1]][1] # InstanceLabel
          /\ rels1[p[1]][3] \notin Nodes1
    /\ \E i \in 1..Len(rels1), j \in 1..Len(rels2) :
          /\ rels1[i][1] = rels2[j][1]
          /\ rels1[i][1] # InstanceLabel
          /\ <<rels1[i][2], rels2[j][2]>> \in var_choices
          /\ rels1[i][3] = rels2[j][3]
          /\ rels1[i][3] \in Nodes1
          /\ rels2[j][3] \notin Nodes2
          /\ <<i, j>> \notin PairedPositions

\* C10: every assignment that satisfies the model pairs each node of either
\* graph with at most one node of the other, and sets a triple-pairing
\* variable only if the pairing of the sources is set and, when both targets
\* are nodes, the pairing of the targets is set; the all-zero assignment
\* satisfies the model.
C10_StructurePreserving ==
    pc = "built" =>
        /\ \A x \in Feasible(Model) :
              /\ \A p \in x.v, q \in x.v : (p[1] = q[1] \/ p[2] = q[2]) => p = q
              /\ \A p \in PairedPositions :
                    LET t1 == rels1[p[1]]
                        t2 == rels2[p[2]]
                    IN <<TripleId(t1), TripleId(t2)>> \in x.t =>
                          /\ <<t1[2], t2[2]>> \in x.v
                          /\ (t1[3] \in Nodes1 /\ t2[3] \in Nodes2)
                                => <<t1[3], t2[3]>> \in x.v
        /\ [v |-> {}, t |-> {}] \in Feasible(Model)

\* C10 witness: some assignment of the node-pairing variables breaks a
\* constraint, and a satisfying assignment pairs two nodes of each graph and
\* sets a pairing of relation triples whose targets are nodes other than
\* their sources.
C10_Witness ==
    /\ pc = "built"
    /\ \E V \in SUBSET var_choices : ~NodeConstrs(V, Model)
    /\ \E x \in Feasible(Model) :
          /\ Cardinality(x.v) = 2
          /\ \E p \in PairedPositions :
                /\ <<TripleId(rels1[p[1]]), TripleId(rels2[p[2]])>> \in x.t
                /\ rels1[p[1]][1] # InstanceLabel
                /\ rels1[p[1]][3] \in Nodes1
                /\ rels1[p[1]][3] # rels1[p[1]][2]

====
